---- MODULE Spec2Model ----
(***************************************************************************)
(* A model of the algocol crate: the in-place sorts (bubble, insertion,    *)
(* selection, merge, quick, tim), the merge primitive and the element      *)
(* transfer primitive.  Every function of the crate is a frame on a call   *)
(* stack; one action is one prologue or one loop iteration of the source.  *)
(* Indices are 0-based as in the source; a slice is a TLA+ sequence and    *)
(* slice[i] of the source is Get(slice, i).                                *)
(***************************************************************************)
EXTENDS Integers, Sequences, FiniteSets, Bags, TLC

\* Bounds of the model.
MaxLen == 4
MaxKey == 3
\* Run sizes tried for timsort: below, equal to and above every length.
MaxRun == MaxLen + 1

VARIABLES
    sequence,   \* the caller's sequence, mutated in place
    input,      \* the sequence as it was when the call was made
    ascending,  \* the direction argument of the call
    entry,      \* the entry point the caller invoked, "none" before the call
    args,       \* the index arguments the caller passed (merge, timsort)
    stack,      \* the call stack: one frame per active function
    result,     \* "Idle", "Pending", "Ok", an AgcErrorKind, or "Panic"
    ret         \* the value of the last Ok return (an index), else 0

vars == <<sequence, input, ascending, entry, args, stack, result, ret>>

-----------------------------------------------------------------------------
\* Elements and the comparator.

\* An element is a record compared by key only: <<key, tag>>; the tag is the
\* element's position in the input, which tells equal-keyed elements apart.
Elements(keys) == [i \in 1..Len(keys) |-> <<keys[i], i>>]

Inputs == UNION {[1..n -> 1..MaxKey] : n \in 0..MaxLen}

\* The caller-supplied comparison |a, b| a.cmp(b), on the key.
compare(a, b) ==
    IF a[1] < b[1] THEN "Less" ELSE IF a[1] > b[1] THEN "Greater" ELSE "Equal"

is_lt(order) == order = "Less"
\* is_le without the Equal case.
is_le_strict(order) == order = "Less"
is_le(order) == order \in {"Less", "Equal"}
is_eq(order) == order = "Equal"
is_ge(order) == order \in {"Greater", "Equal"}
is_gt(order) == order = "Greater"

Min(a, b) == IF a < b THEN a ELSE b

-----------------------------------------------------------------------------
\* Slices.

Get(slice, i) == slice[i + 1]

\* The sub-slice &mut sequence[base .. base+length] and its write-back.
View(seq, base, length) == SubSeq(seq, base + 1, base + length)

WithView(seq, base, slice) ==
    [i \in 1..Len(seq) |->
        IF i > base /\ i <= base + Len(slice) THEN slice[i - base] ELSE seq[i]]

\* <[T]>::swap(a, b)
swap(slice, a, b) ==
    [slice EXCEPT ![a + 1] = slice[b + 1], ![b + 1] = slice[a + 1]]

\* slice[from..=to].rotate_left(1)
rotate_left(slice, from, to) ==
    [i \in 1..Len(slice) |->
        IF i - 1 < from \/ i - 1 > to THEN slice[i]
        ELSE IF i - 1 = to THEN slice[from + 1]
        ELSE slice[i + 1]]

\* slice[to..=from].rotate_right(1)
rotate_right(slice, to, from) ==
    [i \in 1..Len(slice) |->
        IF i - 1 < to \/ i - 1 > from THEN slice[i]
        ELSE IF i - 1 = to THEN slice[from + 1]
        ELSE slice[i - 1]]

\* transfer_element with a rotation that overwrites instead of moving.
transfer_element_overwrite(slice, from, to) ==
    IF from >= Len(slice) \/ to >= Len(slice)
    THEN [slice |-> slice, result |-> "OutOfBounds"]
    ELSE [slice |-> [slice EXCEPT ![to + 1] = slice[from + 1]], result |-> "Ok"]

\* transfer_element that rotates from the start of the slice instead of `to`.
transfer_element_from_start(slice, from, to) ==
    IF from >= Len(slice) \/ to >= Len(slice)
    THEN [slice |-> slice, result |-> "OutOfBounds"]
    ELSE [slice |-> rotate_right(slice, 0, from), result |-> "Ok"]

\* transfer_element that exchanges the two positions.
transfer_element_swap(slice, from, to) ==
    IF from >= Len(slice) \/ to >= Len(slice)
    THEN [slice |-> slice, result |-> "OutOfBounds"]
    ELSE [slice |-> [slice EXCEPT ![to + 1] = slice[from + 1],
                                  ![from + 1] = slice[to + 1]],
          result |-> "Ok"]

\* transfer_element that rejects the indices only when both are out of range.
transfer_element_lenient(slice, from, to) ==
    IF from >= Len(slice) /\ to >= Len(slice)
    THEN [slice |-> slice, result |-> "OutOfBounds"]
    ELSE [slice |-> slice, result |-> "Ok"]

\* transfer_element that leaves the slice as it is.
transfer_element_noop(slice, from, to) ==
    IF from >= Len(slice) \/ to >= Len(slice)
    THEN [slice |-> slice, result |-> "OutOfBounds"]
    ELSE [slice |-> slice, result |-> "Ok"]

transfer_element(slice, from, to) ==
    IF from >= Len(slice) \/ to >= Len(slice)
    THEN [slice |-> slice, result |-> "OutOfBounds"]
    ELSE IF from = to THEN [slice |-> slice, result |-> "Ok"]
    ELSE IF from < to
         THEN [slice |-> rotate_left(slice, from, to), result |-> "Ok"]
         ELSE [slice |-> rotate_right(slice, to, from), result |-> "Ok"]

\* is_sorted_by's loops, from `index` on: false at the first adjacent pair
\* that is Greater (ascending) or Less (descending).
RECURSIVE is_sorted_scan(_, _, _)
is_sorted_scan(slice, index, asc) ==
    IF index >= Len(slice) - 1 THEN TRUE
    ELSE IF asc /\ is_gt(compare(Get(slice, index), Get(slice, index + 1)))
         THEN FALSE
    ELSE IF ~asc /\ is_lt(compare(Get(slice, index), Get(slice, index + 1)))
         THEN FALSE
    ELSE is_sorted_scan(slice, index + 1, asc)

\* is_sorted_by with the direction ignored.
is_sorted_by_ascending(slice, asc) ==
    IF Len(slice) <= 1 THEN TRUE ELSE is_sorted_scan(slice, 0, TRUE)

\* is_sorted_by that rejects Equal neighbours.
is_sorted_by_strict(slice, asc) ==
    \A index \in 0..Len(slice) - 2 :
        IF asc THEN is_lt(compare(Get(slice, index), Get(slice, index + 1)))
               ELSE is_gt(compare(Get(slice, index), Get(slice, index + 1)))

is_sorted_by(slice, asc) ==
    IF Len(slice) <= 1 THEN TRUE ELSE is_sorted_scan(slice, 0, asc)

-----------------------------------------------------------------------------
\* The call stack.

Running == result = "Pending" /\ stack # <<>>
Top == stack[Len(stack)]
Pop == SubSeq(stack, 1, Len(stack) - 1)
ReplaceTop(f) == [stack EXCEPT ![Len(stack)] = f]
At(fn, pc) == Running /\ Top.fn = fn /\ Top.pc = pc

\* The slice the running function works on.
Slice == View(sequence, Top.base, Top.length)
Store(slice) == sequence' = WithView(sequence, Top.base, slice)

Goto(f) == stack' = ReplaceTop(f) /\ UNCHANGED <<result, ret>>
CallFn(f, callee) ==
    stack' = Append(ReplaceTop(f), callee) /\ UNCHANGED <<result, ret>>
\* return Ok(v): the frame is popped; the outermost return ends the call.
ReturnOk(v) ==
    /\ stack' = Pop
    /\ ret' = v
    /\ result' = IF Len(stack) = 1 THEN "Ok" ELSE result
\* return Err(kind): every call site propagates it with `?`.
ReturnErr(kind) == stack' = <<>> /\ result' = kind /\ UNCHANGED ret
\* an index out of range or an arithmetic underflow aborts the call.
Abort == stack' = <<>> /\ result' = "Panic" /\ UNCHANGED ret

Frame(fn, base, length) ==
    [fn |-> fn, pc |-> "entry", base |-> base, length |-> length]

-----------------------------------------------------------------------------
\* bubblesort_by.  The frame's `swaps` counts the calls of sequence.swap.

BubblesortEntry ==
    /\ At("bubblesort_by", "entry")
    /\ IF Top.length <= 1
       THEN ReturnOk(0)
       ELSE Goto([fn |-> "bubblesort_by", pc |-> "while", base |-> Top.base,
                  length |-> Top.length, sorted |-> FALSE, index |-> 1,
                  swaps |-> 0])
    /\ UNCHANGED <<sequence, input, ascending, entry, args>>

\* while !sorted { sorted = true; for index in 1..length
BubblesortWhile ==
    /\ At("bubblesort_by", "while")
    /\ IF ~Top.sorted
       THEN Goto([Top EXCEPT !.pc = "for", !.sorted = TRUE, !.index = 1])
       ELSE ReturnOk(0)
    /\ UNCHANGED <<sequence, input, ascending, entry, args>>

\* Bubble sort's test with the direction ignored.
bubble_out_of_order_ascending(a, b, asc) == is_gt(compare(a, b))

\* The test that makes bubble sort exchange a neighbouring pair.
bubble_out_of_order(a, b, asc) ==
    IF asc THEN is_gt(compare(a, b)) ELSE is_lt(compare(a, b))

BubblesortFor ==
    /\ At("bubblesort_by", "for")
    /\ LET index == Top.index
           swapping == bubble_out_of_order(
                           Get(Slice, index - 1), Get(Slice, index), ascending)
           next == IF index + 1 < Top.length THEN "for" ELSE "while"
       IN  /\ Store(IF swapping THEN swap(Slice, index, index - 1) ELSE Slice)
           /\ Goto([Top EXCEPT !.pc = next, !.index = index + 1,
                               !.sorted = IF swapping THEN FALSE ELSE @,
                               !.swaps = IF swapping THEN @ + 1 ELSE @])
    /\ UNCHANGED <<input, ascending, entry, args>>

-----------------------------------------------------------------------------
\* insertionsort_by.  The frame's `swaps` counts the calls of sequence.swap.

InsertionsortEntry ==
    /\ At("insertionsort_by", "entry")
    /\ IF Top.length <= 1
       THEN ReturnOk(0)
       ELSE Goto([fn |-> "insertionsort_by", pc |-> "for", base |-> Top.base,
                  length |-> Top.length, index |-> 1, location |-> 0,
                  swaps |-> 0])
    /\ UNCHANGED <<sequence, input, ascending, entry, args>>

\* for index in 1..length { let mut location = index - 1;
InsertionsortFor ==
    /\ At("insertionsort_by", "for")
    /\ IF Top.index < Top.length
       THEN Goto([Top EXCEPT !.pc = "while", !.location = Top.index - 1])
       ELSE ReturnOk(0)
    /\ UNCHANGED <<sequence, input, ascending, entry, args>>

\* Insertion sort's condition with Equal neighbours exchanged too.
insertion_out_of_order_or_equal(a, b, asc) ==
    IF asc THEN is_ge(compare(a, b)) ELSE is_le(compare(a, b))

\* Insertion sort's condition with the direction ignored.
insertion_out_of_order_ascending(a, b, asc) == is_gt(compare(a, b))

\* The condition of insertion sort's inner while loop.
insertion_out_of_order(a, b, asc) ==
    IF asc THEN is_gt(compare(a, b)) ELSE is_lt(compare(a, b))

InsertionsortWhile ==
    /\ At("insertionsort_by", "while")
    /\ LET location == Top.location
           cond == insertion_out_of_order(
                       Get(Slice, location), Get(Slice, location + 1), ascending)
       IN  IF cond
           THEN /\ Store(swap(Slice, location, location + 1))
                /\ IF location = 0
                   THEN Goto([Top EXCEPT !.pc = "for", !.index = @ + 1,
                                         !.swaps = @ + 1])
                   ELSE Goto([Top EXCEPT !.location = location - 1,
                                         !.swaps = @ + 1])
           ELSE /\ Goto([Top EXCEPT !.pc = "for", !.index = @ + 1])
                /\ UNCHANGED sequence
    /\ UNCHANGED <<input, ascending, entry, args>>

-----------------------------------------------------------------------------
\* selectionsort_by

SelectionsortEntry ==
    /\ At("selectionsort_by", "entry")
    /\ IF Top.length <= 1
       THEN ReturnOk(0)
       ELSE Goto([fn |-> "selectionsort_by", pc |-> "for", base |-> Top.base,
                  length |-> Top.length, subsequence |-> 0])
    /\ UNCHANGED <<sequence, input, ascending, entry, args>>

\* The inner scan: for (index, element) in sequence.iter().enumerate(),
\* from `index` on, with `extreme` the extreme found so far.
RECURSIVE selection_scan(_, _, _, _, _)
selection_scan(slice, subsequence, index, extreme, asc) ==
    IF index >= Len(slice) THEN extreme
    ELSE IF index <= subsequence
         THEN selection_scan(slice, subsequence, index + 1, extreme, asc)
    ELSE IF asc /\ is_lt(compare(Get(slice, index), Get(slice, extreme)))
         THEN selection_scan(slice, subsequence, index + 1, index, asc)
    ELSE IF ~asc /\ is_gt(compare(Get(slice, index), Get(slice, extreme)))
         THEN selection_scan(slice, subsequence, index + 1, index, asc)
    ELSE selection_scan(slice, subsequence, index + 1, extreme, asc)

SelectionsortFor ==
    /\ At("selectionsort_by", "for")
    /\ IF Top.subsequence < Top.length
       THEN LET extreme == selection_scan(Slice, Top.subsequence, 0,
                                          Top.subsequence, ascending)
                moved == transfer_element(Slice, extreme, Top.subsequence)
            IN  /\ Store(moved.slice)
                /\ IF moved.result = "Ok"
                   THEN Goto([Top EXCEPT !.subsequence = @ + 1])
                   ELSE ReturnErr(moved.result)
       ELSE ReturnOk(0) /\ UNCHANGED sequence
    /\ UNCHANGED <<input, ascending, entry, args>>

-----------------------------------------------------------------------------
\* merge.  The frame's `transfers` counts the calls of transfer_element.

MergeFrame(base, length, left, middle, right) ==
    [fn |-> "merge", pc |-> "entry", base |-> base, length |-> length,
     left |-> left, middle |-> middle, right |-> right,
     left_size |-> 0, right_size |-> 0, deposit_size |-> 0, transfers |-> 0]

\* merge's error checking with the bounds tested before the order.
merge_check_bounds_first(length, left, middle, right) ==
    IF left > length THEN "OutOfBounds"
    ELSE IF middle > length THEN "OutOfBounds"
    ELSE IF right > length THEN "OutOfBounds"
    ELSE IF left > middle THEN "WrongOrder"
    ELSE IF middle > right THEN "WrongOrder"
    ELSE "Ok"

\* The error checking section of merge.
merge_check(length, left, middle, right) ==
    IF left > middle THEN "WrongOrder"
    ELSE IF middle > right THEN "WrongOrder"
    ELSE IF left > length THEN "OutOfBounds"
    ELSE IF middle > length THEN "OutOfBounds"
    ELSE IF right > length THEN "OutOfBounds"
    ELSE "Ok"

MergeEntry ==
    /\ At("merge", "entry")
    /\ LET checked == merge_check(Top.length, Top.left, Top.middle, Top.right)
       IN  IF checked # "Ok"
           THEN ReturnErr(checked)
           ELSE Goto([Top EXCEPT !.pc = "while",
                                 !.left_size = Top.middle - Top.left + 1,
                                 !.right_size = Top.right - Top.middle,
                                 !.deposit_size = 0])
    /\ UNCHANGED <<sequence, input, ascending, entry, args>>

\* merge's test with the operands of the comparison exchanged.
merge_keeps_left_reversed(a, b, asc) == is_lt(compare(b, a)) = asc

\* The test of merge's loop: the left run's element stays where it is.
merge_keeps_left(a, b, asc) == is_lt(compare(a, b)) = asc

MergeWhile ==
    /\ At("merge", "while")
    /\ IF Top.left_size > 0 /\ Top.right_size > 0
       THEN LET l == Top.left + Top.deposit_size
                r == Top.left + Top.deposit_size + Top.left_size
            IN  IF l >= Top.length \/ r >= Top.length
                THEN Abort /\ UNCHANGED sequence
                ELSE IF merge_keeps_left(Get(Slice, l), Get(Slice, r), ascending)
                THEN /\ Goto([Top EXCEPT !.left_size = @ - 1,
                                         !.deposit_size = @ + 1])
                     /\ UNCHANGED sequence
                ELSE LET moved == transfer_element(Slice, r, l)
                     IN  /\ Store(moved.slice)
                         /\ IF moved.result = "Ok"
                            THEN Goto([Top EXCEPT !.right_size = @ - 1,
                                                  !.deposit_size = @ + 1,
                                                  !.transfers = @ + 1])
                            ELSE ReturnErr(moved.result)
       ELSE ReturnOk(0) /\ UNCHANGED sequence
    /\ UNCHANGED <<input, ascending, entry, args>>

-----------------------------------------------------------------------------
\* mergesort_by

MergesortEntry ==
    /\ At("mergesort_by", "entry")
    /\ IF Top.length <= 1
       THEN ReturnOk(0)
       ELSE Goto([fn |-> "mergesort_by", pc |-> "while", base |-> Top.base,
                  length |-> Top.length, size |-> 1, left |-> 0])
    /\ UNCHANGED <<sequence, input, ascending, entry, args>>

\* while size < length { for left in (0..length).step_by(size*2)
MergesortWhile ==
    /\ At("mergesort_by", "while")
    /\ IF Top.size < Top.length
       THEN Goto([Top EXCEPT !.pc = "for", !.left = 0])
       ELSE ReturnOk(0)
    /\ UNCHANGED <<sequence, input, ascending, entry, args>>

\* The middle boundary without the clamp to length-1.
run_middle_unclamped(left, size, length) == left + size - 1

\* The run boundaries mergesort_by and timsort_by hand to merge.
run_middle(left, size, length) == Min(left + size - 1, length - 1)
run_right(left, size, length) == Min(left + 2 * size - 1, length - 1)

MergesortFor ==
    /\ At("mergesort_by", "for")
    /\ IF Top.left < Top.length
       THEN CallFn([Top EXCEPT !.left = @ + 2 * Top.size],
                   MergeFrame(Top.base, Top.length, Top.left,
                              run_middle(Top.left, Top.size, Top.length),
                              run_right(Top.left, Top.size, Top.length)))
       ELSE Goto([Top EXCEPT !.pc = "while", !.size = @ * 2])
    /\ UNCHANGED <<sequence, input, ascending, entry, args>>

-----------------------------------------------------------------------------
\* mergesort_recursively_by

MergesortRecEntry ==
    /\ At("mergesort_recursively_by", "entry")
    /\ IF Top.length <= 1
       THEN ReturnOk(0)
       ELSE LET middle == Top.length \div 2
            IN  CallFn([fn |-> "mergesort_recursively_by", pc |-> "second",
                        base |-> Top.base, length |-> Top.length,
                        middle |-> middle],
                       Frame("mergesort_recursively_by", Top.base, middle))
    /\ UNCHANGED <<sequence, input, ascending, entry, args>>

\* mergesort_recursively_by(&mut sequence[middle..], ..)?
MergesortRecSecond ==
    /\ At("mergesort_recursively_by", "second")
    /\ CallFn([Top EXCEPT !.pc = "merge"],
              Frame("mergesort_recursively_by", Top.base + Top.middle,
                    Top.length - Top.middle))
    /\ UNCHANGED <<sequence, input, ascending, entry, args>>

\* merge(sequence, 0, middle-1, length-1, ..)?
MergesortRecMerge ==
    /\ At("mergesort_recursively_by", "merge")
    /\ CallFn([Top EXCEPT !.pc = "return"],
              MergeFrame(Top.base, Top.length, 0, Top.middle - 1, Top.length - 1))
    /\ UNCHANGED <<sequence, input, ascending, entry, args>>

MergesortRecReturn ==
    /\ At("mergesort_recursively_by", "return")
    /\ ReturnOk(0)
    /\ UNCHANGED <<sequence, input, ascending, entry, args>>

-----------------------------------------------------------------------------
\* partition

PartitionFrame(base, length, left, right) ==
    [fn |-> "partition", pc |-> "entry", base |-> base, length |-> length,
     left |-> left, right |-> right, pivot |-> 0, tortoise |-> 0, hare |-> 0]

\* The argument checks of partition.
partition_check(length, left, right) ==
    IF left > right THEN "WrongOrder"
    ELSE IF left >= length THEN "OutOfBounds"
    ELSE IF right > length THEN "OutOfBounds"
    ELSE "Ok"

PartitionEntry ==
    /\ At("partition", "entry")
    /\ IF Top.length <= 1
       THEN ReturnOk(0)
       ELSE LET checked == partition_check(Top.length, Top.left, Top.right)
            IN  IF checked # "Ok" THEN ReturnErr(checked)
                \* let pivot = right - 1 underflows for right = 0
                ELSE IF Top.right = 0 THEN Abort
                ELSE Goto([Top EXCEPT !.pc = "for", !.pivot = Top.right - 1,
                                      !.tortoise = Top.left, !.hare = Top.left])
    /\ UNCHANGED <<sequence, input, ascending, entry, args>>

\* partition's test with ties sent to the far side of the pivot.
partition_in_order_strict(ordering, asc) ==
    (is_lt(ordering) /\ asc) \/ (is_gt(ordering) /\ ~asc)

\* partition's test with the direction ignored.
partition_in_order_ascending(ordering, asc) == is_le(ordering)

\* The test of partition's sweep: the swept element goes before the pivot.
partition_in_order(ordering, asc) ==
    (is_le(ordering) /\ asc) \/ (is_ge(ordering) /\ ~asc)

\* for hare in left..pivot
PartitionFor ==
    /\ At("partition", "for")
    /\ Top.hare < Top.pivot
    /\ LET ordering == compare(Get(Slice, Top.hare), Get(Slice, Top.pivot))
       IN  IF partition_in_order(ordering, ascending)
           THEN /\ Store(swap(Slice, Top.tortoise, Top.hare))
                /\ Goto([Top EXCEPT !.tortoise = @ + 1, !.hare = @ + 1])
           ELSE /\ Goto([Top EXCEPT !.hare = @ + 1])
                /\ UNCHANGED sequence
    /\ UNCHANGED <<input, ascending, entry, args>>

\* sequence.swap(tortoise, pivot); Ok(tortoise)
PartitionSwap ==
    /\ At("partition", "for")
    /\ Top.hare >= Top.pivot
    /\ Store(swap(Slice, Top.tortoise, Top.pivot))
    /\ ReturnOk(Top.tortoise)
    /\ UNCHANGED <<input, ascending, entry, args>>

-----------------------------------------------------------------------------
\* quicksort_by

SegmentPair(start, end) == [start |-> start, end |-> end]

QuicksortEntry ==
    /\ At("quicksort_by", "entry")
    /\ IF Top.length <= 1
       THEN ReturnOk(0)
       ELSE Goto([fn |-> "quicksort_by", pc |-> "while", base |-> Top.base,
                  length |-> Top.length,
                  stack |-> <<SegmentPair(0, Top.length - 1)>>,
                  segment |-> SegmentPair(0, 0)])
    /\ UNCHANGED <<sequence, input, ascending, entry, args>>

\* while let Some(segment) = stack.pop() { let pivot = partition(..)?;
QuicksortWhile ==
    /\ At("quicksort_by", "while")
    /\ IF Top.stack # <<>>
       THEN LET segment == Top.stack[Len(Top.stack)]
            IN  CallFn([Top EXCEPT !.pc = "push", !.segment = segment,
                           !.stack = SubSeq(@, 1, Len(@) - 1)],
                       PartitionFrame(Top.base, Top.length,
                                      segment.start, segment.end + 1))
       ELSE ReturnOk(0)
    /\ UNCHANGED <<sequence, input, ascending, entry, args>>

\* quicksort_by pushing the partitioned segment back.
quicksort_subsegments_again(segment, pivot) == <<segment>>

\* quicksort_by pushing every sub-segment that is not empty.
quicksort_subsegments_nonempty(segment, pivot) ==
    (IF pivot > segment.start
     THEN <<SegmentPair(segment.start, pivot - 1)>> ELSE <<>>)
    \o (IF pivot < segment.end
        THEN <<SegmentPair(pivot + 1, segment.end)>> ELSE <<>>)

\* The sub-segments quicksort_by pushes after a partition at pivot.
quicksort_subsegments(segment, pivot) ==
    (IF pivot > segment.start + 1
     THEN <<SegmentPair(segment.start, pivot - 1)>> ELSE <<>>)
    \o (IF pivot + 1 < segment.end
        THEN <<SegmentPair(pivot + 1, segment.end)>> ELSE <<>>)

QuicksortPush ==
    /\ At("quicksort_by", "push")
    /\ Goto([Top EXCEPT !.pc = "while",
                        !.stack = @ \o quicksort_subsegments(Top.segment, ret)])
    /\ UNCHANGED <<sequence, input, ascending, entry, args>>

-----------------------------------------------------------------------------
\* quicksort_recursively_by

QuicksortRecEntry ==
    /\ At("quicksort_recursively_by", "entry")
    /\ IF Top.length <= 1
       THEN ReturnOk(0)
       ELSE CallFn([fn |-> "quicksort_recursively_by", pc |-> "first",
                    base |-> Top.base, length |-> Top.length, pivot |-> 0],
                   PartitionFrame(Top.base, Top.length, 0, Top.length))
    /\ UNCHANGED <<sequence, input, ascending, entry, args>>

\* quicksort_recursively_by(&mut sequence[..pivot], ..)?
QuicksortRecFirst ==
    /\ At("quicksort_recursively_by", "first")
    /\ CallFn([Top EXCEPT !.pc = "second", !.pivot = ret],
              Frame("quicksort_recursively_by", Top.base, ret))
    /\ UNCHANGED <<sequence, input, ascending, entry, args>>

\* quicksort_recursively_by(&mut sequence[pivot+1..], ..)?
QuicksortRecSecond ==
    /\ At("quicksort_recursively_by", "second")
    /\ CallFn([Top EXCEPT !.pc = "return"],
              Frame("quicksort_recursively_by", Top.base + Top.pivot + 1,
                    Top.length - Top.pivot - 1))
    /\ UNCHANGED <<sequence, input, ascending, entry, args>>

QuicksortRecReturn ==
    /\ At("quicksort_recursively_by", "return")
    /\ ReturnOk(0)
    /\ UNCHANGED <<sequence, input, ascending, entry, args>>

-----------------------------------------------------------------------------
\* timsort_by

TimsortFrame(base, length, run) ==
    [fn |-> "timsort_by", pc |-> "entry", base |-> base, length |-> length,
     run |-> run, offset |-> 0, size |-> 0, left |-> 0]

\* The end of the run starting at offset without the clamp to length.
run_end_unclamped(offset, run, length) == offset + run
\* The end of the run starting at offset: min(offset+run, length).
run_end(offset, run, length) == Min(offset + run, length)

TimsortEntry ==
    /\ At("timsort_by", "entry")
    /\ IF Top.length <= 1
       THEN ReturnOk(0)
       ELSE IF Top.length <= Top.run
       THEN CallFn([Top EXCEPT !.pc = "return"],
                   Frame("insertionsort_by", Top.base, Top.length))
       \* (0..length).step_by(0) fails the assertion step != 0
       ELSE IF Top.run = 0 THEN Abort
       ELSE Goto([Top EXCEPT !.pc = "runs", !.offset = 0])
    /\ UNCHANGED <<sequence, input, ascending, entry, args>>

\* return s_insert_if(sequence, ascending, compare);
TimsortReturn ==
    /\ At("timsort_by", "return")
    /\ ReturnOk(0)
    /\ UNCHANGED <<sequence, input, ascending, entry, args>>

\* for offset in (0..length).step_by(run) { s_insert_if(&mut sequence[..])? }
TimsortRuns ==
    /\ At("timsort_by", "runs")
    /\ IF Top.offset < Top.length
       THEN LET end == run_end(Top.offset, Top.run, Top.length)
            IN  IF end > Top.length
                THEN Abort
                ELSE CallFn([Top EXCEPT !.offset = @ + Top.run],
                            Frame("insertionsort_by", Top.base + Top.offset,
                                  end - Top.offset))
       ELSE Goto([Top EXCEPT !.pc = "while", !.size = Top.run])
    /\ UNCHANGED <<sequence, input, ascending, entry, args>>

TimsortWhile ==
    /\ At("timsort_by", "while")
    /\ IF Top.size < Top.length
       THEN Goto([Top EXCEPT !.pc = "for", !.left = 0])
       ELSE ReturnOk(0)
    /\ UNCHANGED <<sequence, input, ascending, entry, args>>

TimsortFor ==
    /\ At("timsort_by", "for")
    /\ IF Top.left < Top.length
       THEN CallFn([Top EXCEPT !.left = @ + 2 * Top.size],
                   MergeFrame(Top.base, Top.length, Top.left,
                              run_middle(Top.left, Top.size, Top.length),
                              run_right(Top.left, Top.size, Top.length)))
       ELSE Goto([Top EXCEPT !.pc = "while", !.size = @ * 2])
    /\ UNCHANGED <<sequence, input, ascending, entry, args>>

-----------------------------------------------------------------------------
\* binarysearch_unchecked_by

\* The searched item is compared by key like the elements; its tag is 0.
Item == args.item

BinarysearchUncheckedEntry ==
    /\ At("binarysearch_unchecked_by", "entry")
    /\ LET length == Top.length
           first == compare(Item, Get(Slice, 0))
           last == compare(Item, Get(Slice, length - 1))
       IN  IF length = 0 THEN ReturnOk(0)
           ELSE IF length = 1
                THEN IF ascending
                     THEN ReturnOk(IF is_le(first) THEN 0 ELSE 1)
                     ELSE ReturnOk(IF is_ge(first) THEN 0 ELSE 1)
           ELSE IF ascending /\ is_lt(first) THEN ReturnOk(0)
           ELSE IF ascending /\ is_gt(last) THEN ReturnOk(length)
           ELSE IF ~ascending /\ is_gt(first) THEN ReturnOk(0)
           ELSE IF ~ascending /\ is_lt(last) THEN ReturnOk(length)
           ELSE Goto([fn |-> "binarysearch_unchecked_by", pc |-> "while",
                      base |-> Top.base, length |-> length,
                      left |-> 1, right |-> length - 1])
    /\ UNCHANGED <<sequence, input, ascending, entry, args>>

\* The side of `middle` that cannot hold the item is the right one.
search_goes_left(ordering, asc) ==
    IF asc THEN is_lt(ordering) ELSE is_gt(ordering)

\* while left <= right { ... } left
BinarysearchUncheckedWhile ==
    /\ At("binarysearch_unchecked_by", "while")
    /\ IF Top.left <= Top.right
       THEN LET middle == Top.left + (Top.right - Top.left) \div 2
                ordering == compare(Item, Get(Slice, middle))
            IN  IF is_eq(ordering) THEN ReturnOk(Top.left)
                ELSE IF search_goes_left(ordering, ascending)
                     THEN Goto([Top EXCEPT !.right = middle - 1])
                     ELSE Goto([Top EXCEPT !.left = middle + 1])
       ELSE ReturnOk(Top.left)
    /\ UNCHANGED <<sequence, input, ascending, entry, args>>

-----------------------------------------------------------------------------
\* binarysearch and binarysearch_by: the same body, the first one with the
\* order of T as the comparison.

\* Ok(Ok(location)) and Ok(Err(location))
Found(location) == [tag |-> "Ok", location |-> location]
NotFound(location) == [tag |-> "Err", location |-> location]

\* if !is_sorted_by(..) { return Err(Unordered) }; the unchecked search
SearchCheck ==
    /\ IF ~is_sorted_by(Slice, ascending)
       THEN ReturnErr("Unordered")
       ELSE CallFn([Top EXCEPT !.pc = "location"],
                   Frame("binarysearch_unchecked_by", Top.base, Top.length))
    /\ UNCHANGED <<sequence, input, ascending, entry, args>>

\* if is_eq(compare(item, &sequence[location])) { Ok(Ok(..)) } else { Ok(Err(..)) }
SearchLocation ==
    /\ LET location == ret
       IN  IF location >= Top.length THEN Abort
           ELSE IF is_eq(compare(Item, Get(Slice, location)))
                THEN ReturnOk(Found(location))
                ELSE ReturnOk(NotFound(location))
    /\ UNCHANGED <<sequence, input, ascending, entry, args>>

BinarysearchEntry == At("binarysearch", "entry") /\ SearchCheck
BinarysearchLocation == At("binarysearch", "location") /\ SearchLocation
BinarysearchByEntry == At("binarysearch_by", "entry") /\ SearchCheck
BinarysearchByLocation == At("binarysearch_by", "location") /\ SearchLocation

-----------------------------------------------------------------------------
\* The caller.

SortEntries ==
    {"bubblesort_by", "insertionsort_by", "selectionsort_by", "mergesort_by",
     "mergesort_recursively_by", "quicksort_by", "quicksort_recursively_by"}

Init ==
    /\ sequence \in {Elements(keys) : keys \in Inputs}
    /\ input = sequence
    /\ ascending \in BOOLEAN
    /\ entry = "none"
    /\ args = <<>>
    /\ stack = <<>>
    /\ result = "Idle"
    /\ ret = 0

\* A call of one of the sorts that take (sequence, ascending, compare).
CallSort ==
    /\ result = "Idle"
    /\ \E fn \in SortEntries :
        /\ entry' = fn
        /\ stack' = <<Frame(fn, 0, Len(sequence))>>
    /\ args' = <<>>
    /\ result' = "Pending"
    /\ UNCHANGED <<sequence, input, ascending, ret>>

\* timsort_by(sequence, ascending, run, compare)
CallTimsort ==
    /\ result = "Idle"
    /\ \E run \in 0..MaxRun :
        /\ args' = [run |-> run]
        /\ stack' = <<TimsortFrame(0, Len(sequence), run)>>
    /\ entry' = "timsort_by"
    /\ result' = "Pending"
    /\ UNCHANGED <<sequence, input, ascending, ret>>

\* merge(slice, left, middle, right, ascending, compare)
CallMerge ==
    /\ result = "Idle"
    /\ \E left, middle, right \in 0..Len(sequence) + 1 :
        /\ args' = [left |-> left, middle |-> middle, right |-> right]
        /\ stack' = <<MergeFrame(0, Len(sequence), left, middle, right)>>
    /\ entry' = "merge"
    /\ result' = "Pending"
    /\ UNCHANGED <<sequence, input, ascending, ret>>

Steps ==
    \/ BubblesortEntry \/ BubblesortWhile \/ BubblesortFor
    \/ InsertionsortEntry \/ InsertionsortFor \/ InsertionsortWhile
    \/ SelectionsortEntry \/ SelectionsortFor
    \/ MergeEntry \/ MergeWhile
    \/ MergesortEntry \/ MergesortWhile \/ MergesortFor
    \/ MergesortRecEntry \/ MergesortRecSecond \/ MergesortRecMerge
    \/ MergesortRecReturn
    \/ PartitionEntry \/ PartitionFor \/ PartitionSwap
    \/ QuicksortEntry \/ QuicksortWhile \/ QuicksortPush
    \/ QuicksortRecEntry \/ QuicksortRecFirst \/ QuicksortRecSecond
    \/ QuicksortRecReturn
    \/ TimsortEntry \/ TimsortReturn \/ TimsortRuns \/ TimsortWhile
    \/ TimsortFor

\* The sorting entry points.
Next == CallSort \/ CallTimsort \/ Steps

Spec == Init /\ [][Next]_vars

\* Direct calls of the merge primitive.
NextMerge == CallMerge \/ MergeEntry \/ MergeWhile

SpecMerge == Init /\ [][NextMerge]_vars

\* The array of test_merge.
MergeExample == Elements(<<7, 6, 1, 3, 6, 2, 4, 5, 8, 20>>)

InitMerge ==
    /\ sequence \in {Elements(keys) : keys \in Inputs} \cup {MergeExample}
    /\ input = sequence
    /\ ascending \in BOOLEAN
    /\ entry = "none"
    /\ args = <<>>
    /\ stack = <<>>
    /\ result = "Idle"
    /\ ret = 0

\* Direct calls of merge, the array of test_merge among the inputs.
SpecMergeExample == InitMerge /\ [][NextMerge]_vars

\* The array of test_partition and of partition's doc example.
PartitionExample == Elements(<<10, 80, 30, 90, 40, 50, 70>>)

InitPartition ==
    /\ sequence \in {Elements(keys) : keys \in Inputs} \cup {PartitionExample}
    /\ input = sequence
    /\ ascending \in BOOLEAN
    /\ entry = "none"
    /\ args = <<>>
    /\ stack = <<>>
    /\ result = "Idle"
    /\ ret = 0

\* partition(sequence, left, right, ascending, compare)
CallPartition ==
    /\ result = "Idle"
    /\ \E left, right \in 0..Len(sequence) + 1 :
        /\ args' = [left |-> left, right |-> right]
        /\ stack' = <<PartitionFrame(0, Len(sequence), left, right)>>
    /\ entry' = "partition"
    /\ result' = "Pending"
    /\ UNCHANGED <<sequence, input, ascending, ret>>

\* Direct calls of partition.
NextPartition == CallPartition \/ PartitionEntry \/ PartitionFor \/ PartitionSwap

SpecPartition == InitPartition /\ [][NextPartition]_vars

\* The array of test_binarysearch_unchecked and of the search examples.
SearchExample == Elements(<<0, 2, 4, 6, 8>>)

\* The items searched: below, between, level with and above every key.
SearchItems == {<<key, 0>> : key \in (0..MaxKey + 1) \cup {-1, 0, 1, 5, 7, 8, 9}}

InitSearch ==
    /\ sequence \in {Elements(keys) : keys \in Inputs} \cup {SearchExample}
    /\ input = sequence
    /\ ascending \in BOOLEAN
    /\ entry = "none"
    /\ args = <<>>
    /\ stack = <<>>
    /\ result = "Idle"
    /\ ret = 0

SearchEntries == {"binarysearch_unchecked_by", "binarysearch", "binarysearch_by"}

\* binarysearch*(sequence, item, ascending[, compare])
CallSearch ==
    /\ result = "Idle"
    /\ \E fn \in SearchEntries, item \in SearchItems :
        /\ entry' = fn
        /\ args' = [item |-> item]
        /\ stack' = <<Frame(fn, 0, Len(sequence))>>
    /\ result' = "Pending"
    /\ UNCHANGED <<sequence, input, ascending, ret>>

\* is_sorted_by(sequence, ascending, compare): a bool, no error.
CallIsSorted ==
    /\ result = "Idle"
    /\ entry' = "is_sorted_by"
    /\ ret' = is_sorted_by(sequence, ascending)
    /\ result' = "Ok"
    /\ UNCHANGED <<sequence, input, ascending, args, stack>>

\* Direct calls of the searches and of the order test.
NextSearch ==
    \/ CallSearch
    \/ CallIsSorted
    \/ BinarysearchUncheckedEntry
    \/ BinarysearchUncheckedWhile
    \/ BinarysearchEntry
    \/ BinarysearchLocation
    \/ BinarysearchByEntry
    \/ BinarysearchByLocation

SpecSearch == InitSearch /\ [][NextSearch]_vars

\* The slice of transfer_element's doc example.
TransferExample == Elements(<<0, 1, 2, 3, 4>>)

InitTransfer ==
    /\ sequence \in {Elements(keys) : keys \in Inputs} \cup {TransferExample}
    /\ input = sequence
    /\ ascending \in BOOLEAN
    /\ entry = "none"
    /\ args = <<>>
    /\ stack = <<>>
    /\ result = "Idle"
    /\ ret = 0

\* transfer_element(slice, from, to)
CallTransfer ==
    /\ result = "Idle"
    /\ \E from, to \in 0..Len(sequence) + 1 :
        /\ args' = [from |-> from, to |-> to]
        /\ sequence' = transfer_element(sequence, from, to).slice
        /\ result' = transfer_element(sequence, from, to).result
    /\ entry' = "transfer_element"
    /\ UNCHANGED <<input, ascending, stack, ret>>

NextTransfer == CallTransfer

SpecTransfer == InitTransfer /\ [][NextTransfer]_vars

\* quicksort_by(sequence, ascending, compare)
CallQuicksort ==
    /\ result = "Idle"
    /\ entry' = "quicksort_by"
    /\ stack' = <<Frame("quicksort_by", 0, Len(sequence))>>
    /\ args' = <<>>
    /\ result' = "Pending"
    /\ UNCHANGED <<sequence, input, ascending, ret>>

\* Direct calls of the iterative quicksort, the seven-element array of
\* test_partition among its inputs.
NextQuicksort ==
    \/ CallQuicksort
    \/ QuicksortEntry \/ QuicksortWhile \/ QuicksortPush
    \/ PartitionEntry \/ PartitionFor \/ PartitionSwap

SpecQuicksort == InitPartition /\ [][NextQuicksort]_vars

\* The array of the doc examples of bubblesort and insertionsort.
SwapExample == Elements(<<5, 4, 3, 2, 1>>)

InitSwaps ==
    /\ sequence \in {Elements(keys) : keys \in Inputs} \cup {SwapExample}
    /\ input = sequence
    /\ ascending \in BOOLEAN
    /\ entry = "none"
    /\ args = <<>>
    /\ stack = <<>>
    /\ result = "Idle"
    /\ ret = 0

SwapEntries == {"bubblesort_by", "insertionsort_by"}

CallSwapSort ==
    /\ result = "Idle"
    /\ \E fn \in SwapEntries :
        /\ entry' = fn
        /\ stack' = <<Frame(fn, 0, Len(sequence))>>
    /\ args' = <<>>
    /\ result' = "Pending"
    /\ UNCHANGED <<sequence, input, ascending, ret>>

\* Direct calls of the two sorts that exchange neighbours.
NextSwaps ==
    \/ CallSwapSort
    \/ BubblesortEntry \/ BubblesortWhile \/ BubblesortFor
    \/ InsertionsortEntry \/ InsertionsortFor \/ InsertionsortWhile

SpecSwaps == InitSwaps /\ [][NextSwaps]_vars

\* mergesort_by(sequence, ascending, compare)
CallMergesort ==
    /\ result = "Idle"
    /\ entry' = "mergesort_by"
    /\ stack' = <<Frame("mergesort_by", 0, Len(sequence))>>
    /\ args' = <<>>
    /\ result' = "Pending"
    /\ UNCHANGED <<sequence, input, ascending, ret>>

\* Direct calls of the iterative merge sort, the five-element array
\* [5,4,3,2,1] of the sorting tests among its inputs.
NextMergesort ==
    \/ CallMergesort
    \/ MergesortEntry \/ MergesortWhile \/ MergesortFor
    \/ MergeEntry \/ MergeWhile

SpecMergesort == InitSwaps /\ [][NextMergesort]_vars

\* The functions built on a loop that is not a counted `for`.
TerminatingEntries ==
    {"bubblesort_by", "quicksort_by", "binarysearch_unchecked_by"}

CallTerminating ==
    /\ result = "Idle"
    /\ \E fn \in TerminatingEntries, item \in SearchItems :
        /\ entry' = fn
        /\ args' = IF fn = "binarysearch_unchecked_by"
                   THEN [item |-> item] ELSE <<>>
        /\ stack' = <<Frame(fn, 0, Len(sequence))>>
    /\ result' = "Pending"
    /\ UNCHANGED <<sequence, input, ascending, ret>>

StepsTerminating ==
    \/ BubblesortEntry \/ BubblesortWhile \/ BubblesortFor
    \/ QuicksortEntry \/ QuicksortWhile \/ QuicksortPush
    \/ PartitionEntry \/ PartitionFor \/ PartitionSwap
    \/ BinarysearchUncheckedEntry \/ BinarysearchUncheckedWhile

NextTerminating == CallTerminating \/ StepsTerminating

\* A call that has begun keeps executing: the code is sequential and has no
\* suspension point.
SpecTerminating ==
    Init /\ [][NextTerminating]_vars /\ WF_vars(StepsTerminating)

-----------------------------------------------------------------------------
\* Vocabulary of the properties.

Returned == result \notin {"Idle", "Pending"}

\* The multiset of the elements a sequence holds.
BagOf(s) ==
    [x \in {s[i] : i \in DOMAIN s} |-> Cardinality({i \in DOMAIN s : s[i] = x})]

SameElements(s, t) == Len(s) = Len(t) /\ BagOf(s) = BagOf(t)

\* The position (0-based) of an element; elements are told apart by tag.
PositionOf(s, x) == CHOOSE i \in 0..Len(s) - 1 : Get(s, i) = x

\* The sort named in the call's entry, with timsort's run at least 1.
SortCall == entry \in SortEntries \/ (entry = "timsort_by" /\ args.run >= 1)

\* merge was called with left <= middle <= right < length.
MergeArgsValid ==
    /\ entry = "merge"
    /\ args.left <= args.middle /\ args.middle <= args.right
    /\ args.right < Len(input)

\* The two runs merge was given, as they were at the call, and their range now.
LeftRun(s) == SubSeq(s, args.left + 1, args.middle + 1)
RightRun(s) == SubSeq(s, args.middle + 2, args.right + 1)
MergedRange(s) == SubSeq(s, args.left + 1, args.right + 1)

MergeRunsOrdered ==
    /\ MergeArgsValid
    /\ is_sorted_by(LeftRun(input), ascending)
    /\ is_sorted_by(RightRun(input), ascending)

-----------------------------------------------------------------------------
\* Properties of the sorts, checked under Spec.

\* C1: during and after every sort (timsort with run >= 1), after each swap
\* or rotation and at return, the sequence holds exactly the multiset of
\* elements of the input.
PermutationInvariant == SortCall => SameElements(sequence, input)

\* A rotation of merge inside timsort has changed the sequence.
PermutationWitness ==
    /\ Running /\ entry = "timsort_by" /\ args.run >= 1
    /\ Top.fn = "merge" /\ Top.deposit_size > 0
    /\ sequence # input

\* C2: mergesort_by and mergesort_recursively_by never fail or stop half-way,
\* and when they return the sequence is ordered in the requested direction.
MergesortOrders ==
    entry \in {"mergesort_by", "mergesort_recursively_by"} =>
        /\ result \in {"Pending", "Ok"}
        /\ result = "Pending" => ENABLED Next
        /\ result = "Ok" => is_sorted_by(sequence, ascending)

\* The recursive merge sort has returned from an unordered input of length 3+.
MergesortWitness ==
    /\ entry = "mergesort_recursively_by" /\ result = "Ok"
    /\ Len(input) >= 3 /\ ~is_sorted_by(input, ascending)

\* C3: quicksort_by and quicksort_recursively_by never fail or stop half-way,
\* and when they return the sequence is ordered in the requested direction,
\* duplicate keys included.
QuicksortOrders ==
    entry \in {"quicksort_by", "quicksort_recursively_by"} =>
        /\ result \in {"Pending", "Ok"}
        /\ result = "Pending" => ENABLED Next
        /\ result = "Ok" => is_sorted_by(sequence, ascending)

\* The explicit-stack quicksort has returned from an unordered input that
\* holds a duplicate key.
QuicksortWitness ==
    /\ entry = "quicksort_by" /\ result = "Ok"
    /\ ~is_sorted_by(input, ascending)
    /\ \E i, j \in DOMAIN input : i # j /\ input[i][1] = input[j][1]

\* C4: timsort_by with any run >= 1 never fails or stops half-way, and when
\* it returns the sequence is ordered in the requested direction.
TimsortOrders ==
    (entry = "timsort_by" /\ args.run >= 1) =>
        /\ result \in {"Pending", "Ok"}
        /\ result = "Pending" => ENABLED Next
        /\ result = "Ok" => is_sorted_by(sequence, ascending)

\* timsort has returned from an unordered input whose length is above the run
\* size and no multiple of it.
TimsortWitness ==
    /\ entry = "timsort_by" /\ result = "Ok"
    /\ args.run >= 2 /\ Len(input) > args.run /\ Len(input) % args.run # 0
    /\ ~is_sorted_by(input, ascending)

\* C5: bubblesort_by, insertionsort_by and selectionsort_by never fail or stop
\* half-way, and when they return the sequence is ordered in the requested
\* direction.
QuadraticSortsOrder ==
    entry \in {"bubblesort_by", "insertionsort_by", "selectionsort_by"} =>
        /\ result \in {"Pending", "Ok"}
        /\ result = "Pending" => ENABLED Next
        /\ result = "Ok" => is_sorted_by(sequence, ascending)

\* Selection sort has returned from a strictly reverse-ordered input.
QuadraticSortsWitness ==
    /\ entry = "selectionsort_by" /\ result = "Ok"
    /\ Len(input) >= 3
    /\ \A i \in 1..Len(input) - 1 :
          IF ascending THEN input[i][1] > input[i + 1][1]
                       ELSE input[i][1] < input[i + 1][1]

\* C6: a sort of a sequence already ordered in the requested direction
\* returns with every position holding the element it held before, also when
\* equal-keyed elements are distinguishable.
SortIdempotent ==
    (SortCall /\ Returned /\ is_sorted_by(input, ascending)) => sequence = input

-----------------------------------------------------------------------------
\* Properties of merge, checked under SpecMerge.

\* C7: merge of two ordered runs with left <= middle <= right < length never
\* fails or stops half-way, and when it returns slice[left..=right] is ordered
\* and is a permutation of its previous contents.
MergeMerges ==
    MergeRunsOrdered =>
        /\ result \in {"Pending", "Ok"}
        /\ result = "Pending" => ENABLED NextMerge
        /\ result = "Ok" =>
            /\ is_sorted_by(MergedRange(sequence), ascending)
            /\ SameElements(MergedRange(sequence), MergedRange(input))

\* merge has returned after interleaving two runs of two elements or more.
MergeWitness ==
    /\ MergeRunsOrdered /\ result = "Ok"
    /\ args.middle > args.left /\ args.right > args.middle + 1
    /\ sequence # input

\* C8: merge is stable: of two Equal elements the one from the left run ends
\* before the one from the right run, and the elements of one run keep their
\* relative order.
MergeStable ==
    (MergeRunsOrdered /\ result = "Ok") =>
        \A i, j \in args.left..args.right :
            (i < j /\ is_eq(compare(Get(input, i), Get(input, j))))
            => PositionOf(sequence, Get(input, i))
                    < PositionOf(sequence, Get(input, j))

\* C9: merge with left <= middle <= right and an index >= the slice length
\* returns OutOfBounds, never aborts, and leaves the slice unchanged.
MergeOutOfBounds ==
    (/\ entry = "merge"
     /\ args.left <= args.middle /\ args.middle <= args.right
     /\ args.right >= Len(input)
     /\ Returned)
    => result = "OutOfBounds" /\ sequence = input

\* C10: merge with left > middle or middle > right returns WrongOrder,
\* whatever the slice length, and leaves the slice unchanged.
MergeWrongOrder ==
    (entry = "merge" /\ (args.left > args.middle \/ args.middle > args.right)) =>
        /\ result \in {"Pending", "WrongOrder"}
        /\ result = "Pending" => ENABLED NextMerge
        /\ sequence = input

\* merge has returned WrongOrder for indices that are also out of bounds.
MergeWrongOrderWitness ==
    /\ entry = "merge" /\ result = "WrongOrder"
    /\ args.left > Len(input) /\ args.middle > args.right

-----------------------------------------------------------------------------
\* Properties of partition, checked under SpecPartition.

Keys(s) == [i \in DOMAIN s |-> s[i][1]]

\* x stands before-or-level with y in the direction asc.
InOrderOrEqual(x, y, asc) == IF asc THEN x[1] <= y[1] ELSE x[1] >= y[1]

\* C11: partition with left < right <= length never fails or stops half-way
\* and returns p in [left, right-1]; position p holds the former element of
\* index right-1, [left, p-1] holds elements in order or level with it and
\* [p+1, right-1] elements strictly out of order with it; the documented
\* example gives p = 4 and [10,30,40,50,70,90,80].
PartitionPartitions ==
    (entry = "partition" /\ args.left < args.right /\ args.right <= Len(input)) =>
        /\ result \in {"Pending", "Ok"}
        /\ result = "Pending" => ENABLED NextPartition
        /\ result = "Ok" =>
            LET pivot == Get(input, args.right - 1)
            IN  /\ args.left <= ret /\ ret <= args.right - 1
                /\ Get(sequence, ret) = pivot
                /\ \A i \in args.left..ret - 1 :
                      InOrderOrEqual(Get(sequence, i), pivot, ascending)
                /\ \A i \in ret + 1..args.right - 1 :
                      ~InOrderOrEqual(Get(sequence, i), pivot, ascending)
                /\ (input = PartitionExample /\ args.left = 0 /\ args.right = 7
                        /\ ascending)
                    => /\ ret = 4
                       /\ Keys(sequence) = <<10, 30, 40, 50, 70, 90, 80>>

\* partition has returned from the documented example.
PartitionWitness ==
    /\ entry = "partition" /\ result = "Ok"
    /\ input = PartitionExample /\ args.left = 0 /\ args.right = 7 /\ ascending
    /\ sequence # input

\* C12: for every length, 0 and 1 included, partition returns WrongOrder when
\* left > right and OutOfBounds when left >= length or right > length, with
\* the sequence unchanged.
PartitionRejects ==
    (entry = "partition" /\ Returned) =>
        /\ args.left > args.right
            => result = "WrongOrder" /\ sequence = input
        /\ (args.left <= args.right
                /\ (args.left >= Len(input) \/ args.right > Len(input)))
            => result = "OutOfBounds" /\ sequence = input

-----------------------------------------------------------------------------
\* Properties of the searches, checked under SpecSearch.

\* Every adjacent pair of s is in order or level in the direction asc.
Ordered(s, asc) ==
    \A i \in 1..Len(s) - 1 :
        IF asc THEN s[i][1] <= s[i + 1][1] ELSE s[i][1] >= s[i + 1][1]

\* x stands strictly before y in the direction asc.
Before(x, y, asc) == IF asc THEN x[1] < y[1] ELSE x[1] > y[1]

SomeEqual(s, x) == \E i \in 1..Len(s) : s[i][1] = x[1]

CheckedSearch == entry \in {"binarysearch", "binarysearch_by"}

\* C13: on an ordered sequence binarysearch_unchecked_by returns the index i
\* with every element before i strictly before the item and every element at
\* or after i at or after the item, also when the item is level with the
\* first or an interior element; [0,2,4,6,8] searched for 5 gives 3.
UncheckedSearchLowerBound ==
    (entry = "binarysearch_unchecked_by" /\ result = "Ok"
            /\ Ordered(input, ascending)) =>
        /\ ret \in 0..Len(input)
        /\ \A j \in 0..ret - 1 : Before(Get(input, j), Item, ascending)
        /\ \A j \in ret..Len(input) - 1 : ~Before(Get(input, j), Item, ascending)
        /\ (input = SearchExample /\ Item[1] = 5 /\ ascending) => ret = 3

\* C14: on an ordered sequence holding an element Equal to the item the
\* checked searches return Ok(Ok(i)) with sequence[i] Equal to the item, and
\* they return Ok(Err(i)) only when no element is Equal to it.
CheckedSearchFinds ==
    (CheckedSearch /\ Returned /\ Ordered(input, ascending)) =>
        /\ SomeEqual(input, Item) =>
            /\ result = "Ok"
            /\ ret.tag = "Ok"
            /\ is_eq(compare(Item, Get(input, ret.location)))
        /\ (result = "Ok" /\ ret.tag = "Err") => ~SomeEqual(input, Item)

\* C15: on a non-empty ordered sequence with the item beyond the last
\* element (greater when ascending, less when descending) the checked
\* searches return Ok(Err(length)).
CheckedSearchPastEnd ==
    (CheckedSearch /\ Returned /\ Ordered(input, ascending) /\ Len(input) >= 1
            /\ Before(Get(input, Len(input) - 1), Item, ascending)) =>
        /\ result = "Ok"
        /\ ret = NotFound(Len(input))

\* C16: on a sequence not ordered in the requested direction binarysearch
\* and binarysearch_by end with the Unordered error and never a position.
CheckedSearchUnordered ==
    (CheckedSearch /\ ~Ordered(input, ascending)) =>
        /\ result \in {"Pending", "Unordered"}
        /\ result = "Pending" => ENABLED NextSearch

\* binarysearch_by has rejected a sequence whose last pair alone is out of
\* order.
CheckedSearchUnorderedWitness ==
    /\ entry = "binarysearch_by" /\ result = "Unordered"
    /\ Len(input) >= 3
    /\ Ordered(SubSeq(input, 1, Len(input) - 1), ascending)

\* C19: is_sorted_by is true exactly when no adjacent pair compares Greater
\* (ascending) or Less (descending); it is true for lengths 0 and 1, and
\* Equal neighbours are in order in both directions.
IsSortedByAdjacentPairs ==
    entry = "is_sorted_by" =>
        LET wrong == IF ascending THEN "Greater" ELSE "Less"
            pairs == {compare(Get(input, i), Get(input, i + 1)) :
                        i \in 0..Len(input) - 2}
        IN  /\ ret = (wrong \notin pairs)
            /\ Len(input) <= 1 => ret
            /\ pairs \subseteq {"Equal"} => ret

\* is_sorted_by has accepted a sequence with Equal and with unequal
\* neighbours.
IsSortedByWitness ==
    /\ entry = "is_sorted_by" /\ ret
    /\ \E i, j \in 1..Len(input) - 1 :
        input[i][1] = input[i + 1][1] /\ input[j][1] # input[j + 1][1]

-----------------------------------------------------------------------------
\* Properties of transfer_element, checked under SpecTransfer.

Max(a, b) == IF a > b THEN a ELSE b

\* s without its element of index i.
Remove(s, i) == SubSeq(s, 1, i) \o SubSeq(s, i + 2, Len(s))

\* C17: transfer_element with from, to < length returns Ok; the element of
\* index from stands at index to, the other elements keep their relative
\* order, the positions outside [min(from,to), max(from,to)] keep their
\* elements, and nothing changes when from = to; [0,1,2,3,4] with from 4,
\* to 1 becomes [0,4,1,2,3].
TransferMoves ==
    (entry = "transfer_element" /\ args.from < Len(input)
            /\ args.to < Len(input)) =>
        /\ result = "Ok"
        /\ Len(sequence) = Len(input)
        /\ Get(sequence, args.to) = Get(input, args.from)
        /\ Remove(sequence, args.to) = Remove(input, args.from)
        /\ \A i \in 0..Len(input) - 1 :
              (i < Min(args.from, args.to) \/ i > Max(args.from, args.to))
                  => Get(sequence, i) = Get(input, i)
        /\ args.from = args.to => sequence = input
        /\ (input = TransferExample /\ args.from = 4 /\ args.to = 1)
            => Keys(sequence) = <<0, 4, 1, 2, 3>>

\* transfer_element has moved the last element of the documented example
\* to index 1.
TransferWitness ==
    /\ entry = "transfer_element" /\ result = "Ok"
    /\ input = TransferExample /\ args.from = 4 /\ args.to = 1
    /\ sequence # input

\* C18: transfer_element with from >= length or to >= length returns
\* OutOfBounds and leaves the slice unchanged.
TransferOutOfBounds ==
    (entry = "transfer_element"
            /\ (args.from >= Len(input) \/ args.to >= Len(input))) =>
        /\ result = "OutOfBounds"
        /\ sequence = input

\* transfer_element has rejected a call with only `to` out of range.
TransferOutOfBoundsWitness ==
    /\ entry = "transfer_element" /\ result = "OutOfBounds"
    /\ args.from < Len(input) /\ args.to >= Len(input)

-----------------------------------------------------------------------------
\* Aborts of timsort_by, checked under Spec.

\* C20: timsort_by never aborts, whatever the run, run = 0 with length >= 2
\* included.
TimsortNeverAborts ==
    entry = "timsort_by" => result # "Panic"

-----------------------------------------------------------------------------
\* Termination, checked under SpecTerminating.

\* C21: every call of bubblesort_by, quicksort_by and
\* binarysearch_unchecked_by eventually returns, and quicksort_by returns
\* with its explicit stack empty (sequences of length 0 and 1 return before
\* the stack is made).
EveryCallReturns ==
    /\ (result = "Pending") ~> (result = "Ok")
    /\ [][(entry = "quicksort_by" /\ result = "Pending" /\ result' = "Ok"
                /\ Len(input) >= 2)
            => Top.stack = <<>>]_vars

\* quicksort_by has returned from a sequence of the greatest length that it
\* had to rearrange.
EveryCallReturnsWitness ==
    /\ entry = "quicksort_by" /\ result = "Ok"
    /\ Len(input) = MaxLen /\ sequence # input

-----------------------------------------------------------------------------
\* The range of the unchecked search, checked under SpecSearch.

\* C22: for every sequence, ordered or not, every item and both directions
\* binarysearch_unchecked_by returns an index in [0, length]: 0 for the empty
\* sequence, and for length 1 it returns 0 when the item is in order or level
\* with the sole element and 1 otherwise.
UncheckedSearchRange ==
    entry = "binarysearch_unchecked_by" =>
        /\ result \in {"Pending", "Ok"}
        /\ result = "Pending" => ENABLED NextSearch
        /\ result = "Ok" =>
            /\ ret \in 0..Len(input)
            /\ Len(input) = 0 => ret = 0
            /\ Len(input) = 1 =>
                ret = IF InOrderOrEqual(Item, Get(input, 0), ascending)
                      THEN 0 ELSE 1

\* The unchecked search has returned 0 for an item level with the sole
\* element.
UncheckedSearchRangeWitness ==
    /\ entry = "binarysearch_unchecked_by" /\ result = "Ok"
    /\ Len(input) = 1 /\ Item[1] = Get(input, 0)[1] /\ ret = 0

-----------------------------------------------------------------------------
\* The number of swaps, checked under SpecSwaps.

\* (n^2 - n)/2
WorstCaseSwaps(n) == (n * n - n) \div 2

\* Every element stands strictly after its successor in the direction asc.
StrictlyReversed(s, asc) ==
    \A i \in 1..Len(s) - 1 : Before(s[i + 1], s[i], asc)

\* The running sort is at its last step, the return.
AboutToReturn ==
    \/ At("bubblesort_by", "while") /\ Top.sorted
    \/ At("insertionsort_by", "for") /\ Top.index >= Top.length

\* C23: on an input of length n bubblesort_by and insertionsort_by perform at
\* most (n^2 - n)/2 swaps in all, and exactly that many when the input is
\* strictly reverse-ordered: 10 for [5,4,3,2,1] ascending.
SwapsBounded ==
    (entry \in SwapEntries /\ Running /\ Top.pc # "entry") =>
        /\ Top.swaps <= WorstCaseSwaps(Len(input))
        /\ (AboutToReturn /\ StrictlyReversed(input, ascending))
            => Top.swaps = WorstCaseSwaps(Len(input))
        /\ (AboutToReturn /\ input = SwapExample /\ ascending)
            => Top.swaps = 10

\* Insertion sort is about to return from [5,4,3,2,1], ascending, after its
\* last swap.
SwapsWitness ==
    /\ entry = "insertionsort_by" /\ AboutToReturn
    /\ input = SwapExample /\ ascending
    /\ Top.swaps = WorstCaseSwaps(5)

-----------------------------------------------------------------------------
\* The explicit stack of quicksort_by, checked under SpecQuicksort.

\* The frame of quicksort_by, below partition's frame while that one runs.
QuicksortFrame == stack[1]

RangeSize(start, end) == end - start + 1

Disjoint(a, b) == a.end < b.start \/ b.end < a.start

\* Every range on the explicit stack has start < end <= length-1 and no two
\* ranges overlap.
QuicksortStackGood ==
    (entry = "quicksort_by" /\ Running /\ QuicksortFrame.pc # "entry") =>
        LET ranges == QuicksortFrame.stack
        IN  /\ \A i \in 1..Len(ranges) :
                  /\ ranges[i].start < ranges[i].end
                  /\ ranges[i].end <= Len(input) - 1
            /\ \A i, j \in 1..Len(ranges) :
                  i # j => Disjoint(ranges[i], ranges[j])

\* The step after partition returned p for the popped range pushes the left
\* sub-range iff it has more than one element, the right sub-range iff it
\* has more than one element, and nothing else.
QuicksortPushesLongRanges ==
    (entry = "quicksort_by" /\ Running /\ QuicksortFrame.pc = "push"
            /\ Len(stack) = 1 /\ stack' # <<>>) =>
        LET segment == QuicksortFrame.segment
            old == QuicksortFrame.stack
            new == stack'[1].stack
            pushed == {new[i] : i \in Len(old) + 1..Len(new)}
            left == SegmentPair(segment.start, ret - 1)
            right == SegmentPair(ret + 1, segment.end)
        IN  /\ SubSeq(new, 1, Len(old)) = old
            /\ left \in pushed <=> RangeSize(left.start, left.end) > 1
            /\ right \in pushed <=> RangeSize(right.start, right.end) > 1
            /\ pushed \subseteq {left, right}

\* C24: quicksort_by pushes a sub-range of the partitioned range iff it has
\* more than one element; every range on its stack has
\* start < end <= length-1, the ranges are pairwise disjoint, and partition
\* never returns an error to it.
QuicksortStackInvariant ==
    /\ [](entry = "quicksort_by" => result \in {"Pending", "Ok"})
    /\ []QuicksortStackGood
    /\ [][QuicksortPushesLongRanges]_vars

\* Both sub-ranges of a partitioned range are on the stack.
QuicksortStackWitness ==
    /\ entry = "quicksort_by" /\ Running /\ QuicksortFrame.pc = "while"
    /\ Len(QuicksortFrame.stack) >= 2

-----------------------------------------------------------------------------
\* The sweep of partition, checked under SpecPartition.

\* C25: during partition's sweep with left < right <= length,
\* left <= tortoise <= hare <= right-1 holds at every iteration, every element
\* of [left, tortoise) is in order or level with the pivot element, every
\* element of [tortoise, hare) is strictly out of order with it, and the
\* pivot element stays at index right-1 until the final swap.
PartitionSweepInvariant ==
    (entry = "partition" /\ args.left < args.right /\ args.right <= Len(input)
            /\ At("partition", "for")) =>
        LET pivot == Get(input, args.right - 1)
        IN  /\ args.left <= Top.tortoise
            /\ Top.tortoise <= Top.hare
            /\ Top.hare <= args.right - 1
            /\ \A i \in args.left..Top.tortoise - 1 :
                  InOrderOrEqual(Get(sequence, i), pivot, ascending)
            /\ \A i \in Top.tortoise..Top.hare - 1 :
                  ~InOrderOrEqual(Get(sequence, i), pivot, ascending)
            /\ Get(sequence, args.right - 1) = pivot

\* The sweep has ended with elements on both sides of the cursor, an element
\* level with the pivot among those before it.
PartitionSweepWitness ==
    /\ entry = "partition" /\ At("partition", "for")
    /\ args.left < Top.tortoise /\ Top.tortoise < Top.hare
    /\ Top.hare = args.right - 1 /\ args.right <= Len(input)
    /\ \E i \in args.left..Top.tortoise - 1 :
          is_eq(compare(Get(sequence, i), Get(sequence, args.right - 1)))
    /\ sequence # input

-----------------------------------------------------------------------------
\* The passes of mergesort_by, checked under SpecMergesort.

\* The aligned blocks of width size: [k*size, min((k+1)*size, length)-1].
BlocksOrdered(s, size, asc) ==
    \A k \in 0..(Len(s) - 1) \div size :
        Ordered(SubSeq(s, k * size + 1, Min((k + 1) * size, Len(s))), asc)

\* mergesort_by stands at the start of a pass: no merge of it is made yet.
PassStart ==
    /\ entry = "mergesort_by" /\ Running /\ Len(stack) = 1
    /\ Top.pc = "while" \/ (Top.pc = "for" /\ Top.left = 0)

\* C26: at the start of mergesort_by's pass of width size every aligned block
\* [k*size, min((k+1)*size, length)-1] is ordered in the direction asked;
\* every merge call has left <= middle <= right <= length-1, and none returns
\* an error.
MergesortPassInvariant ==
    entry = "mergesort_by" =>
        /\ result \in {"Pending", "Ok"}
        /\ PassStart => BlocksOrdered(sequence, Top.size, ascending)
        /\ (Running /\ Top.fn = "merge") =>
              /\ Top.left <= Top.middle
              /\ Top.middle <= Top.right
              /\ Top.right <= Top.length - 1

\* In the pass of width 2 over [5,4,3,2,1] merge is called for the last,
\* short block with both boundaries clamped to length-1.
MergesortPassWitness ==
    /\ entry = "mergesort_by" /\ At("merge", "entry")
    /\ input = SwapExample
    /\ stack[1].size = 2
    /\ Top.left = Top.length - 1 /\ Top.middle = Top.left
    /\ Top.right = Top.left
    /\ sequence # input

-----------------------------------------------------------------------------
\* The work of merge, checked under SpecMerge.

\* The element the last iteration deposited came from the right run.
LastDepositFromRight ==
    /\ Top.deposit_size > 0
    /\ PositionOf(input, Get(sequence, Top.left + Top.deposit_size - 1))
           > args.middle

\* C27: a merge call with left <= middle <= right < length makes at most
\* right - middle transfers, one per right-run element at most; it makes no
\* transfer for a left-run element that is already in place (in order or
\* level with the right run's candidate), and its loop runs no iteration
\* once a run is exhausted.
MergeTransfersFew ==
    (MergeArgsValid /\ At("merge", "while")) =>
        /\ Top.transfers <= args.right - args.middle
        /\ Top.deposit_size - Top.transfers <= args.middle - args.left + 1
        /\ Top.left_size >= 0 /\ Top.right_size >= 0
        /\ (LastDepositFromRight /\ Top.left_size > 0) =>
              Before(Get(sequence, Top.left + Top.deposit_size - 1),
                     Get(sequence, Top.left + Top.deposit_size), ascending)

-----------------------------------------------------------------------------
\* The frame of merge, checked under SpecMergeExample.

\* C28: for left <= middle <= right < length merge stays inside
\* [left, right]: at every iteration left+deposit_size+left_size <= right and
\* deposit_size+left_size+right_size = right-left+1, so transfer_element
\* never returns OutOfBounds and merge returns Ok with every element outside
\* [left, right] unchanged, as in test_merge for the indices 0, 1 and 9.
MergeFrameEffect ==
    MergeArgsValid =>
        /\ result \in {"Pending", "Ok"}
        /\ result = "Pending" => ENABLED NextMerge
        /\ At("merge", "while") =>
            /\ Top.deposit_size + Top.left_size + Top.right_size
                   = args.right - args.left + 1
            /\ (Top.left_size > 0 /\ Top.right_size > 0) =>
                  /\ args.left <= Top.left + Top.deposit_size
                  /\ Top.left + Top.deposit_size + Top.left_size <= args.right
        /\ \A i \in 0..Len(input) - 1 :
              (i < args.left \/ i > args.right)
                  => Get(sequence, i) = Get(input, i)
        /\ (input = MergeExample /\ args.left = 2 /\ args.middle = 4
                /\ args.right = 8 /\ ascending /\ result = "Ok")
            => Keys(sequence) = <<7, 6, 1, 2, 3, 4, 5, 6, 8, 20>>

\* merge has returned from the call of test_merge.
MergeFrameWitness ==
    /\ entry = "merge" /\ result = "Ok"
    /\ input = MergeExample /\ args.left = 2 /\ args.middle = 4
    /\ args.right = 8 /\ ascending
    /\ sequence # input

-----------------------------------------------------------------------------
\* The frame of partition, checked under SpecPartition.

\* C29: whenever partition returns Ok on a sequence of length >= 2 for
\* arguments it accepts (left <= right <= length and left < length,
\* left = right included), every element at an index outside [left, right-1]
\* is unchanged and the returned index lies in [left, right-1].
PartitionFrameEffect ==
    (entry = "partition" /\ result = "Ok" /\ Len(input) >= 2
            /\ args.left <= args.right /\ args.right <= Len(input)
            /\ args.left < Len(input)) =>
        /\ \A i \in 0..Len(input) - 1 :
              (i < args.left \/ i > args.right - 1)
                  => Get(sequence, i) = Get(input, i)
        /\ args.left <= ret /\ ret <= args.right - 1

-----------------------------------------------------------------------------
\* Stability of the quadratic sorts, checked under Spec.

QuadraticSort ==
    entry \in {"bubblesort_by", "insertionsort_by", "selectionsort_by"}

\* Elements that compare Equal stand in t in the order they have in s.
EqualsKeepOrder(s, t) ==
    \A i, j \in 1..Len(s) :
        (i < j /\ is_eq(compare(s[i], s[j])))
            => PositionOf(t, s[i]) < PositionOf(t, s[j])

\* C30: bubblesort_by, insertionsort_by and selectionsort_by are stable in
\* both directions: elements that compare Equal leave in the relative order
\* they came in.
QuadraticSortsStable ==
    (QuadraticSort /\ result = "Ok") => EqualsKeepOrder(input, sequence)

\* Selection sort has returned from an input with two Equal elements, the
\* first of which it had to move.
QuadraticSortsStableWitness ==
    /\ entry = "selectionsort_by" /\ result = "Ok"
    /\ \E i, j \in 1..Len(input) :
        /\ i < j /\ is_eq(compare(input[i], input[j]))
        /\ sequence[i] # input[i]

====
